---- MODULE Spec2Model ----
\* Model of the page-advance state machine, the per-frame open/close edge
\* detection and the hover/click dispatch of src/book/src/main.js.
EXTENDS Integers, Sequences, FiniteSets, TLC

\* ------------------------------------------------------------------ bounds
\* Number of entries of the `pages` array used by the model (the repository's
\* array has 13 entries).
NumPages == 6
\* Largest value Date.now() returns in the model (the first is 1, and the
\* pages' initial turnedAt is 0).
MaxTime == 1
\* How far outside [0, NumPages-1] the arguments tried on setPage reach.
MaxOver == 2

\* ------------------------------------------------------------------ values
Pages == 0 .. (NumPages - 1)
\* null (hoveredObject, intersectedPage) and undefined (animationTimeout)
NoPage == -1
NoTimer == 0
FastDelay == 50
SlowDelay == 150
FarDistance == 2

Max(a, b) == IF a >= b THEN a ELSE b
Min(a, b) == IF a <= b THEN a ELSE b
Abs(a) == IF a < 0 THEN 0 - a ELSE a

VARIABLES
  currentPage,       \* let currentPage
  delayedPage,       \* let delayedPage
  animationTimeout,  \* let animationTimeout: handle of the last setTimeout
  timers,            \* the event loop's pending timers, [id, delay]
  pageObjects,       \* index -> [highlighted, turnedAt, lastOpened]
  hoveredObject,     \* let hoveredObject (a page index or NoPage)
  now,               \* last value returned by Date.now()
  pageCounter,       \* pageCounter.textContent
  prevBtn,           \* prevBtn.disabled
  nextBtn,           \* nextBtn.disabled
  calls              \* the calls made by the event handler that ran last

vars == <<currentPage, delayedPage, animationTimeout, timers, pageObjects,
          hoveredObject, now, pageCounter, prevBtn, nextBtn, calls>>

\* ------------------------------------------------------- book controller
\* The controller's share of the state, as one record the functions below
\* transform.
Cursor ==
  [currentPage |-> currentPage, delayedPage |-> delayedPage,
   animationTimeout |-> animationTimeout, timers |-> timers,
   pageCounter |-> pageCounter, prevBtn |-> prevBtn, nextBtn |-> nextBtn]

\* `Page ${currentPage} of ${pages.length - 1}`
CounterText(page) == <<"Page", page, "of", NumPages - 1>>

\* mutant: the UI shows the trailing page instead of the target
updateUIDelayed(st) ==
  [st EXCEPT !.pageCounter = CounterText(st.delayedPage),
             !.prevBtn = (st.delayedPage <= 0),
             !.nextBtn = (st.delayedPage >= NumPages - 1)]

updateUI(st) ==
  [st EXCEPT !.pageCounter = CounterText(st.currentPage),
             !.prevBtn = (st.currentPage <= 0),
             !.nextBtn = (st.currentPage >= NumPages - 1)]

\* setTimeout returns a handle that no pending timer has. The only handle the
\* program keeps is animationTimeout, which setTimeout's caller overwrites with
\* the new one, so the least free number stands for the browser's next id.
FreshId(st) ==
  CHOOSE i \in 1 .. (Cardinality(st.timers) + 1) :
    /\ \A t \in st.timers : t.id # i
    /\ \A j \in 1 .. (i - 1) : \E t \in st.timers : t.id = j

setTimeout(st, delay) ==
  LET id == FreshId(st)
  IN [st EXCEPT !.timers = st.timers \cup {[id |-> id, delay |-> delay]},
                !.animationTimeout = id]

clearTimeout(st, id) ==
  [st EXCEPT !.timers = {t \in st.timers : t.id # id}]

\* mutant: the fast delay already at the threshold distance
StepDelayInclusive(current, delayed) ==
  IF Abs(current - delayed) >= FarDistance THEN FastDelay ELSE SlowDelay

StepDelay(current, delayed) ==
  IF Abs(current - delayed) > FarDistance THEN FastDelay ELSE SlowDelay

\* mutant: the trailing page jumps to the target
StepJump(current, delayed) == current

StepToward(current, delayed) ==
  IF current > delayed THEN delayed + 1
  ELSE IF current < delayed THEN delayed - 1
  ELSE delayed

\* mutant: the step is never scheduled again
RearmNever(st, delay) == st

\* mutant: the step is scheduled again even on arrival
RearmAlways(st, delay) == setTimeout(st, delay)

Rearm(st, delay) ==
  IF st.currentPage # st.delayedPage THEN setTimeout(st, delay) ELSE st

goToPage(st) ==
  IF st.currentPage = st.delayedPage THEN st
  ELSE LET delay == StepDelay(st.currentPage, st.delayedPage)
           stepped == [st EXCEPT !.delayedPage =
                         StepToward(st.currentPage, st.delayedPage)]
       IN Rearm(updateUI(stepped), delay)

\* mutant: the pending timer is not cancelled
updateDelayedPageNoClear(st) == goToPage(st)

updateDelayedPage(st) == goToPage(clearTimeout(st, st.animationTimeout))

\* mutant: the clamp lets the target reach pages.length
ClampToLength(page) == Max(0, Min(NumPages, page))

\* mutant: no lower clamp
ClampUpper(page) == Min(NumPages - 1, page)

ClampPage(page) == Max(0, Min(NumPages - 1, page))

setPage(st, page) ==
  updateUI(updateDelayedPage([st EXCEPT !.currentPage = ClampPage(page)]))

Install(st) ==
  /\ currentPage' = st.currentPage
  /\ delayedPage' = st.delayedPage
  /\ animationTimeout' = st.animationTimeout
  /\ timers' = st.timers
  /\ pageCounter' = st.pageCounter
  /\ prevBtn' = st.prevBtn
  /\ nextBtn' = st.nextBtn

\* ------------------------------------------------------------ page model
NewPage == [highlighted |-> FALSE, turnedAt |-> 0, lastOpened |-> FALSE]

setHighlighted(pg, value) == [pg EXCEPT !.highlighted = value]

\* mutant: the stamp is taken in every frame
updateAlways(pg, time, opened) ==
  [pg EXCEPT !.turnedAt = time, !.lastOpened = opened]

\* pageObject.update: the open/close edge detection (the bone rotations and
\* the emissive glow it also computes are read by no other code).
update(pg, time, opened) ==
  IF pg.lastOpened # opened
    THEN [pg EXCEPT !.turnedAt = time, !.lastOpened = opened]
    ELSE pg

onPointerEnter(pg) == setHighlighted(pg, TRUE)
onPointerLeave(pg) == setHighlighted(pg, FALSE)

\* mutant: a click always advances past the page
ClickTargetNext(pg, index) == index + 1

\* pageObject.onClick: the page it asks setPage for
ClickTarget(pg, index) == IF pg.lastOpened THEN index ELSE index + 1

\* ----------------------------------------------------- interaction layer
\* mutant: the page left is not told
NotificationsEnterOnly(hovered, intersected) ==
  IF hovered # intersected /\ intersected # NoPage
    THEN << <<"onPointerEnter", intersected>> >>
    ELSE <<>>

\* checkIntersection, given the page the raycaster found (or NoPage):
\* the notifications it sends, in order
Notifications(hovered, intersected) ==
  IF hovered # intersected
    THEN (IF hovered # NoPage THEN << <<"onPointerLeave", hovered>> >> ELSE <<>>)
         \o (IF intersected # NoPage
               THEN << <<"onPointerEnter", intersected>> >> ELSE <<>>)
    ELSE <<>>

RECURSIVE Deliver(_, _)
Deliver(pgs, notes) ==
  IF notes = <<>> THEN pgs
  ELSE LET n == Head(notes)
           p == n[2]
           pg == IF n[1] = "onPointerEnter" THEN onPointerEnter(pgs[p])
                 ELSE onPointerLeave(pgs[p])
       IN Deliver([pgs EXCEPT ![p] = pg], Tail(notes))

NewHovered(hovered, intersected) ==
  IF hovered # intersected THEN intersected ELSE hovered

\* --------------------------------------------------------------- actions
\* the values Date.now() can return to the page updates of one frame, page by
\* page: the clock never runs backwards
FrameTimes ==
  {f \in [Pages -> now .. MaxTime] :
     \A p \in Pages : p > 0 => f[p - 1] <= f[p]}

\* the state init() leaves: the globals' initial values, one animate() call
\* (no page is open, the pointer may already be over a page) and updateUI()
InitAt(time) ==
  /\ currentPage = 0
  /\ delayedPage = 0
  /\ animationTimeout = NoTimer
  /\ timers = {}
  /\ now = time
  /\ pageCounter = CounterText(0)
  /\ prevBtn = TRUE
  /\ nextBtn = (0 >= NumPages - 1)
  /\ \E ip \in Pages \cup {NoPage} :
       /\ hoveredObject = ip
       /\ pageObjects = Deliver([p \in Pages |-> NewPage], Notifications(NoPage, ip))
       /\ calls = << <<"init", 0>> >> \o Notifications(NoPage, ip)

Init == InitAt(1)

PageState == <<pageObjects, hoveredObject, now>>

\* prevBtn 'click' listener (a disabled button dispatches no click)
previousPage ==
  /\ ~prevBtn
  /\ Install(setPage(Cursor, currentPage - 1))
  /\ calls' = << <<"previousPage", 0>>, <<"setPage", currentPage - 1>> >>
  /\ UNCHANGED PageState

\* nextBtn 'click' listener
nextPage ==
  /\ ~nextBtn
  /\ Install(setPage(Cursor, currentPage + 1))
  /\ calls' = << <<"nextPage", 0>>, <<"setPage", currentPage + 1>> >>
  /\ UNCHANGED PageState

\* canvas 'click' listener
onClick ==
  IF hoveredObject # NoPage
    THEN LET p == hoveredObject
             newPage == ClickTarget(pageObjects[p], p)
         IN /\ Install(setPage(Cursor, newPage))
            /\ pageObjects' = [pageObjects EXCEPT ![p] = setHighlighted(@, FALSE)]
            /\ calls' = << <<"onClick", p>>, <<"setPage", newPage>> >>
            /\ UNCHANGED <<hoveredObject, now>>
    ELSE /\ calls' = << <<"onClick", NoPage>> >>
         /\ UNCHANGED <<currentPage, delayedPage, animationTimeout, timers,
                        pageCounter, prevBtn, nextBtn, PageState>>

\* a pending timer expires and the event loop runs its callback
timerFires ==
  \E t \in timers :
    /\ Install(goToPage([Cursor EXCEPT !.timers = timers \ {t}]))
    /\ calls' = << <<"goToPage", t.delay>> >>
    /\ UNCHANGED PageState

\* the arguments animate passes to page.update besides delta and delayedPage:
\* opened, and bookClosed (which only feeds the bone rotations)
Opened(delayed, index) == delayed > index
BookClosed(delayed) == delayed = 0 \/ delayed = NumPages

\* one requestAnimationFrame callback
animate ==
  \E times \in FrameTimes, ip \in Pages \cup {NoPage} :
    LET updated == [p \in Pages |->
                      update(pageObjects[p], times[p], Opened(delayedPage, p))]
        notes == Notifications(hoveredObject, ip)
    IN /\ pageObjects' = Deliver(updated, notes)
       /\ hoveredObject' = NewHovered(hoveredObject, ip)
       /\ now' = times[NumPages - 1]
       /\ calls' = << <<"animate", 0>> >> \o notes
       /\ UNCHANGED <<currentPage, delayedPage, animationTimeout, timers,
                      pageCounter, prevBtn, nextBtn>>

Next ==
  \/ previousPage
  \/ nextPage
  \/ onClick
  \/ timerFires
  \/ animate

Spec == Init /\ [][Next]_vars

\* The event loop runs every timer callback that stays pending. The clock
\* starts at the last value the model lets Date.now() return.
FairSpec == InitAt(MaxTime) /\ [][Next]_vars /\ WF_vars(timerFires)

\* ---------------------------------------------------------------- claims
\* What the handler that ran last did, read from `calls`.
SetPageCalled == \E i \in DOMAIN calls : calls[i][1] = "setPage"
SetPageArg == calls[Len(calls)][2]
TimerRan == calls # <<>> /\ calls[1][1] = "goToPage"
WaitBefore == calls[1][2]
FrameRan == calls # <<>> /\ calls[1][1] = "animate"
PageClicked == calls # <<>> /\ calls[1][1] = "onClick" /\ calls[1][2] # NoPage
Distance == Abs(currentPage - delayedPage)

\* C1: cursor convergence. Unless setPage is called again, the timer brings
\* delayedPage to currentPage; without a setPage call delayedPage changes only
\* by moving one page closer to the unchanged currentPage (so it takes every
\* integer between its start and the target once, in monotonic order, and none
\* outside), and once delayedPage = currentPage it stays there.
C1_Converges ==
  (currentPage # delayedPage /\ ~SetPageCalled)
     ~> (currentPage = delayedPage \/ SetPageCalled)

C1_Path ==
  /\ (delayedPage' # delayedPage /\ ~SetPageCalled') =>
       /\ currentPage' = currentPage
       /\ Abs(currentPage - delayedPage') = Distance - 1
  /\ (currentPage = delayedPage /\ ~SetPageCalled') =>
       currentPage' = delayedPage'

C1_CursorConvergence == C1_Converges /\ [][C1_Path]_vars

\* the timer made the last step and delayedPage arrived at a target 3 away
C1_Witness ==
  TimerRan /\ currentPage = delayedPage /\ currentPage = 3 /\ timers = {}

\* C2 as claimed: every step of delayedPage runs from the timer, after a wait
\* of 50 if |currentPage - delayedPage| > 2 when the wait starts, else of 150.
C2_Original ==
  [][delayedPage' # delayedPage =>
       /\ TimerRan'
       /\ WaitBefore' = (IF Distance > 2 THEN 50 ELSE 150)]_vars

\* C2 amended: the first step after a setPage call runs inside that call, with
\* no wait; every other step runs from the timer, after a wait of 50 if
\* |currentPage - delayedPage| > 2 held before the step that armed the timer
\* (the distance is 1 less when the wait starts, so 50 iff it is then > 1),
\* else of 150; and a pending timer carries exactly that wait.
C2_StepTiming ==
  /\ delayedPage' # delayedPage =>
       \/ SetPageCalled'
       \/ /\ TimerRan'
          /\ WaitBefore' = (IF Distance + 1 > 2 THEN 50 ELSE 150)
  /\ \A t \in timers' :
       t.delay = (IF Abs(currentPage' - delayedPage') + 1 > 2 THEN 50 ELSE 150)

C2_CatchUpTiming == [][C2_StepTiming]_vars

\* on the way from 0 to 5: the step 3 -> 4 ran after a wait of 50 and the
\* last step waits 150
C2_Witness ==
  /\ currentPage = 5 /\ delayedPage = 4
  /\ TimerRan /\ WaitBefore = 50
  /\ \E t \in timers : t.delay = 150

\* C3: at most one catch-up timer is pending, and it is the one
\* animationTimeout names, which the next setPage call cancels.
C3_OneTimer ==
  /\ Cardinality(timers) <= 1
  /\ \A t \in timers : t.id = animationTimeout

\* previousPage was pressed on the way from 1 to 5: the pending timer was
\* cancelled and one timer is pending again
C3_Witness ==
  /\ calls = << <<"previousPage", 0>>, <<"setPage", 4>> >>
  /\ delayedPage = 2
  /\ Cardinality(timers) = 1

\* C4: setPage(p) and setPage(max(0, min(N-1, p))) leave the same state, for
\* every p from MaxOver below 0 to MaxOver above N-1, and currentPage is in
\* [0, N-1].
Clamped(p) == IF p < 0 THEN 0 ELSE IF p > NumPages - 1 THEN NumPages - 1 ELSE p

C4_SetPageClamps ==
  /\ \A p \in (0 - MaxOver) .. (NumPages - 1 + MaxOver) :
       setPage(Cursor, p) = setPage(Cursor, Clamped(p))
  /\ currentPage \in Pages

\* setPage(N) was called (a click on the closed last page)
C4_Witness ==
  SetPageCalled /\ SetPageArg = NumPages /\ currentPage = NumPages - 1

\* C5 as claimed: a click on the hovered page p calls setPage(p) if
\* delayedPage > p at that moment and setPage(p + 1) otherwise.
C5_Original ==
  [][PageClicked' =>
       /\ calls'[1][2] = hoveredObject
       /\ SetPageArg' = (IF delayedPage > hoveredObject
                           THEN hoveredObject ELSE hoveredObject + 1)]_vars

\* C5 amended: a click on the hovered page p calls setPage(p) if p.lastOpened
\* (p was open at the last frame update) and setPage(p + 1) otherwise.
C5_ClickTarget ==
  [][PageClicked' =>
       /\ calls'[1][2] = hoveredObject
       /\ SetPageArg' = (IF pageObjects[hoveredObject].lastOpened
                           THEN hoveredObject ELSE hoveredObject + 1)]_vars

\* page 2 was clicked while closed: setPage(3)
C5_Witness ==
  /\ calls = << <<"onClick", 2>>, <<"setPage", 3>> >>
  /\ ~pageObjects[2].lastOpened

\* C6: a frame whose picking result changes the hovered page from a to b sends
\* onPointerLeave to a (if a page) and then onPointerEnter to b (if a page),
\* once each; an unchanged result sends nothing; a page is highlighted only
\* while it is the hovered page.
C6_Expected(a, b) ==
  IF a = b THEN <<>>
  ELSE (IF a = NoPage THEN <<>> ELSE << <<"onPointerLeave", a>> >>)
       \o (IF b = NoPage THEN <<>> ELSE << <<"onPointerEnter", b>> >>)

C6_Frame ==
  FrameRan' =>
    /\ Tail(calls') = C6_Expected(hoveredObject, hoveredObject')
    /\ \A p \in Pages :
         pageObjects'[p].highlighted =
           IF hoveredObject' = hoveredObject
             THEN pageObjects[p].highlighted
             ELSE p = hoveredObject'

C6_HoverNotifications ==
  /\ [](\A p \in Pages : pageObjects[p].highlighted => hoveredObject = p)
  /\ [][C6_Frame]_vars

\* the pointer left page 3 for no page: leave(3) alone, the flag false again
C6_Witness ==
  /\ calls = << <<"animate", 0>>, <<"onPointerLeave", 3>> >>
  /\ hoveredObject = NoPage
  /\ ~pageObjects[3].highlighted

\* C7: the counter reads "Page {currentPage} of {N-1}" and the buttons'
\* disabled flags follow currentPage, in every state (also while delayedPage
\* has not caught up).
C7_UIConsistent ==
  /\ pageCounter = <<"Page", currentPage, "of", NumPages - 1>>
  /\ prevBtn = (currentPage <= 0)
  /\ nextBtn = (currentPage >= NumPages - 1)

\* right after a setPage call that moved the target 3 pages ahead of delayedPage
C7_Witness ==
  /\ SetPageCalled /\ currentPage = delayedPage + 3
  /\ pageCounter[2] = currentPage

\* C8: delayedPage changes by exactly 1, to 1 closer to currentPage; a timer
\* step leaves currentPage alone; only a setPage call changes currentPage.
C8_Step ==
  /\ delayedPage' # delayedPage =>
       /\ Abs(delayedPage' - delayedPage) = 1
       /\ Abs(currentPage' - delayedPage') = Abs(currentPage' - delayedPage) - 1
  /\ TimerRan' => currentPage' = currentPage
  /\ currentPage' # currentPage => SetPageCalled'

C8_UnitSteps == [][C8_Step]_vars

\* a timer step moved delayedPage down towards a target still 2 away
C8_Witness == TimerRan /\ delayedPage = currentPage + 2

\* C9: a frame stamps turnedAt and stores opened exactly for the pages whose
\* lastOpened differs from opened = (delayedPage > index); after a frame every
\* lastOpened equals opened; nothing else changes turnedAt or lastOpened.
C9_Update ==
  \A p \in Pages :
    LET opened == delayedPage > p
        old == pageObjects[p]
        new == pageObjects'[p]
    IN /\ FrameRan' =>
            /\ new.lastOpened = opened
            /\ old.lastOpened # opened => new.turnedAt \in now .. now'
            /\ old.lastOpened = opened => new.turnedAt = old.turnedAt
       /\ (new.turnedAt # old.turnedAt \/ new.lastOpened # old.lastOpened) =>
            FrameRan' /\ old.lastOpened # opened

C9_EdgeDetection == [][C9_Update]_vars

\* after a frame page 0 is open and stamped, page 1 was never turned
C9_Witness ==
  /\ FrameRan
  /\ pageObjects[0].lastOpened /\ pageObjects[0].turnedAt = now
  /\ ~pageObjects[1].lastOpened /\ pageObjects[1].turnedAt = 0
  /\ delayedPage = 1

\* C10: a catch-up timer is pending iff currentPage # delayedPage.
C10_TimerIffBehind == (timers # {}) <=> (currentPage # delayedPage)

\* the timer made the last step: nothing is left armed
C10_Witness ==
  TimerRan /\ currentPage = delayedPage /\ timers = {} /\ currentPage = 0

\* C11: delayedPage stays in [0, N-1] and never equals N, so the bookClosed
\* flag of a frame is true only when delayedPage = 0 and the last page is never
\* passed (nor stores) opened = TRUE; a click on the last page, which is always
\* closed, calls setPage(N), which leaves currentPage = N-1.
LastPage == NumPages - 1

C11_DelayedBelowLength ==
  /\ delayedPage \in 0 .. LastPage
  /\ delayedPage # NumPages
  /\ BookClosed(delayedPage) => delayedPage = 0
  /\ ~Opened(delayedPage, LastPage)
  /\ ~pageObjects[LastPage].lastOpened
  /\ (PageClicked /\ calls[1][2] = LastPage) =>
       SetPageArg = NumPages /\ currentPage = LastPage

\* delayedPage is at N-1, its largest value, and the last page was clicked
\* again: setPage(N) was called and nothing moved
C11_Witness ==
  /\ PageClicked /\ calls[1][2] = LastPage /\ SetPageArg = NumPages
  /\ delayedPage = LastPage /\ currentPage = LastPage
  /\ ~BookClosed(delayedPage)
  /\ ~pageObjects[LastPage].lastOpened

====
